---- MODULE Spec2Model ----
(***************************************************************************)
(* Model of Chachay/Cupy: the per-device memoizing decorator and the       *)
(* Device context manager of cupy/cuda/device.py, and the elementwise      *)
(* kernel front end of cupy/elementwise.py (type resolution, broadcasting, *)
(* dimension reduction, ufunc routine selection, dispatch).                *)
(***************************************************************************)
EXTENDS Integers, Sequences, FiniteSets, TLC

\* ------------------------------------------------------------------ bounds
MaxDevice == 1          \* device ids are 0..MaxDevice
MaxKey == 2             \* argument keys of a memoized function are 1..MaxKey
MaxCalls == 4           \* calls of memoized functions explored in one run
MaxDepth == 3           \* deepest nesting of with-blocks explored
MaxRank == 3            \* largest rank of an iteration shape
MaxExtent == 2          \* extents of a reduced iteration shape are 1..MaxExtent
MaxStride == 3          \* strides of an operand are -1..MaxStride
MaxArgs == 2            \* operands handed to _reduce_dims
MaxIn == 2              \* input parameters of a kernel in type resolution
MaxOut == 1             \* output parameters of a kernel in type resolution
MaxOps == 2             \* declared type signatures of a ufunc
MaxGuess == 2           \* calls of ufunc._guess_routine explored in one run
MaxSize == 1            \* an explicit size= of a kernel call is 0..MaxSize

Devices == 0..MaxDevice
Keys == 1..MaxKey
Threads == {1, 2}
\* the memoize-wrapped kernel getters of elementwise.py
Funcs == {"_get_elementwise_kernel", "_get_ufunc_kernel"}

VARIABLES
    active,         \* the threads that run in this specification
    curDev,         \* runtime.getDevice() of each thread
    memoizedFuncs,  \* device.py: _memoized_funcs
    memoAttr,       \* f._cupy_dev_memo: index into tables, 0 = no attribute
    tables,         \* the defaultdict(dict) objects ever created
    pc,             \* position of each thread inside memoize.func
    frame,          \* locals of memoize.func: f, arg_key, memo, result
    ncalls,         \* calls of memoized functions started so far
    ncompiled,      \* executions of the wrapped function per (f, device, key)
    devStack,       \* Device._device_stack of each Device object
    blocks,         \* the with-blocks currently open, innermost last
    lastOp,         \* the last operation of device.py performed: a Device
                    \* operation or clear_device_dependent_memo
    rd,             \* _reduce_dims: its arguments and, once run, its result
    tp,             \* _decide_params_type: its arguments and its outcome
    uf,             \* a ufunc: _ops, _routine_table, its last _guess_routine
    call            \* the last ElementwiseKernel / ufunc call and its outcome

memoVars == <<active, curDev, memoizedFuncs, memoAttr, tables, pc, frame,
              ncalls, ncompiled>>
devVars == <<devStack, blocks, lastOp>>
frontVars == <<rd, tp, uf, call>>
vars == <<memoVars, devVars, frontVars>>

\* ------------------------------------------------- memoize (cuda/device.py)
NoHandle == <<>>
Handle(f, d, k, n) == <<f, d, k, n>>
HandleDev(h) == h[2]
HandleSerial(h) == h[4]

\* collections.defaultdict(dict): every device maps to a dict with no key yet
EmptyTable == [d \in Devices |-> [k \in Keys |-> NoHandle]]

NoFrame == [f |-> "", key |-> 0, tid |-> 0, dev |-> 0, result |-> NoHandle]

\* the memoized function is called: func(*args, **kwargs) starts
Call(t, f, k) ==
    /\ pc[t] = "idle"
    /\ ncalls < MaxCalls
    /\ ncalls' = ncalls + 1
    /\ pc' = [pc EXCEPT ![t] = "hasattr"]
    /\ frame' = [frame EXCEPT ![t] = [NoFrame EXCEPT !.f = f, !.key = k]]
    /\ UNCHANGED <<frontVars, active, curDev, memoizedFuncs, memoAttr, tables,
                   ncompiled, devVars>>

\* if not hasattr(f, '_cupy_dev_memo')
HasAttr(t) ==
    /\ pc[t] = "hasattr"
    /\ pc' = [pc EXCEPT ![t] =
                IF memoAttr[frame[t].f] = 0 THEN "append" ELSE "getmemo"]
    /\ UNCHANGED <<frontVars, active, curDev, memoizedFuncs, memoAttr, tables, frame,
                   ncalls, ncompiled, devVars>>

\* _memoized_funcs.append(f)
AppendFunc(t) ==
    /\ pc[t] = "append"
    /\ memoizedFuncs' = Append(memoizedFuncs, frame[t].f)
    /\ pc' = [pc EXCEPT ![t] = "setattr"]
    /\ UNCHANGED <<frontVars, active, curDev, memoAttr, tables, frame,
                   ncalls, ncompiled, devVars>>

\* f._cupy_dev_memo = collections.defaultdict(dict)
SetAttr(t) ==
    /\ pc[t] = "setattr"
    /\ tables' = Append(tables, EmptyTable)
    /\ memoAttr' = [memoAttr EXCEPT ![frame[t].f] = Len(tables) + 1]
    /\ pc' = [pc EXCEPT ![t] = "getmemo"]
    /\ UNCHANGED <<frontVars, active, curDev, memoizedFuncs, frame,
                   ncalls, ncompiled, devVars>>

\* (mutant) one dict for all devices
MemoDevice_Shared(t) == 0

\* the device whose dict the call uses: Device().id, the current device
MemoDevice(t) == curDev[t]

\* memo = f._cupy_dev_memo[Device().id]
GetMemo(t) ==
    /\ pc[t] = "getmemo"
    /\ frame' = [frame EXCEPT ![t].tid = memoAttr[frame[t].f],
                              ![t].dev = MemoDevice(t)]
    /\ pc' = [pc EXCEPT ![t] = "get"]
    /\ UNCHANGED <<frontVars, active, curDev, memoizedFuncs, memoAttr, tables,
                   ncalls, ncompiled, devVars>>

\* (mutant) the lookup never finds the key
MemoGet_Miss(t) == NoHandle

\* memo.get(arg_key, None)
MemoGet(t) == tables[frame[t].tid][frame[t].dev][frame[t].key]

\* result = memo.get(arg_key, None); if result is None
Get(t) ==
    /\ pc[t] = "get"
    /\ frame' = [frame EXCEPT ![t].result = MemoGet(t)]
    /\ pc' = [pc EXCEPT ![t] =
                IF MemoGet(t) = NoHandle THEN "compile" ELSE "return"]
    /\ UNCHANGED <<frontVars, active, curDev, memoizedFuncs, memoAttr, tables,
                   ncalls, ncompiled, devVars>>

\* result = f(*args, **kwargs): synthesize, compile, load. Every execution
\* returns a new kernel object: the n-th one made for (f, device, key)
Compile(t) ==
    /\ pc[t] = "compile"
    /\ frame' = [frame EXCEPT ![t].result =
                    Handle(frame[t].f, curDev[t], frame[t].key,
                           ncompiled[<<frame[t].f, curDev[t], frame[t].key>>] + 1)]
    /\ ncompiled' = [ncompiled EXCEPT
                        ![<<frame[t].f, curDev[t], frame[t].key>>] = @ + 1]
    /\ pc' = [pc EXCEPT ![t] = "store"]
    /\ UNCHANGED <<frontVars, active, curDev, memoizedFuncs, memoAttr, tables, ncalls,
                   devVars>>

\* memo[arg_key] = result
Store(t) ==
    /\ pc[t] = "store"
    /\ tables' = [tables EXCEPT
                    ![frame[t].tid][frame[t].dev][frame[t].key] = frame[t].result]
    /\ pc' = [pc EXCEPT ![t] = "return"]
    /\ UNCHANGED <<frontVars, active, curDev, memoizedFuncs, memoAttr, frame,
                   ncalls, ncompiled, devVars>>

\* return result
Return(t) ==
    /\ pc[t] = "return"
    /\ pc' = [pc EXCEPT ![t] = "idle"]
    /\ frame' = [frame EXCEPT ![t] = NoFrame]
    /\ UNCHANGED <<frontVars, active, curDev, memoizedFuncs, memoAttr, tables,
                   ncalls, ncompiled, devVars>>

\* Device(d).use(): runtime.setDevice(self.id), between two calls
Use(t, d) ==
    /\ pc[t] = "idle"
    /\ curDev[t] # d
    /\ curDev' = [curDev EXCEPT ![t] = d]
    /\ UNCHANGED <<frontVars, active, memoizedFuncs, memoAttr, tables, pc, frame,
                   ncalls, ncompiled, devStack, blocks>>

\* (mutant) the list is not emptied
ClearedList_Kept == memoizedFuncs

\* _memoized_funcs = []
ClearedList == <<>>

\* clear_device_dependent_memo(), called by a thread that is between two
\* calls: del func._cupy_dev_memo for the functions listed, in order, then
\* the list is emptied. The del of a function that has no _cupy_dev_memo
\* (any more) raises AttributeError and ends the loop there.
Clear(t) ==
    /\ pc[t] = "idle"
    /\ LET n == Len(memoizedFuncs)
           bad == {i \in 1..n :
                    \/ memoAttr[memoizedFuncs[i]] = 0
                    \/ \E j \in 1..(i - 1) :
                            memoizedFuncs[j] = memoizedFuncs[i]}
           stop == IF bad = {} THEN n + 1
                   ELSE CHOOSE i \in bad : \A j \in bad : i <= j
           deleted == {memoizedFuncs[i] : i \in 1..(stop - 1)}
       IN /\ memoAttr' = [f \in Funcs |->
                            IF f \in deleted THEN 0 ELSE memoAttr[f]]
          /\ memoizedFuncs' = IF bad = {} THEN ClearedList ELSE memoizedFuncs
          /\ lastOp' = IF bad = {} THEN "clear" ELSE "clear_error"
    /\ UNCHANGED <<frontVars, active, curDev, tables, pc, frame, ncalls,
                   ncompiled, devStack, blocks>>

\* ------------------------------------------- Device (cuda/device.py)
\* the Device objects of the program: two objects for every device id
DevObjs == Devices \X {1, 2}
ObjId(o) == o[1]

\* (mutant) list.pop(0): the oldest saved device
StackTop_First(s) == 1

\* list.pop(): the index of the element popped
StackTop(s) == Len(s)

\* with o: __enter__ saves Device() (the current device) and calls use()
Enter(t, o) ==
    /\ pc[t] = "idle"
    /\ Len(blocks) < MaxDepth
    /\ devStack' = [devStack EXCEPT ![o] = Append(@, curDev[t])]
    /\ curDev' = [curDev EXCEPT ![t] = ObjId(o)]
    /\ blocks' = Append(blocks, [obj |-> o, prev |-> curDev[t]])
    /\ lastOp' = "enter"
    /\ UNCHANGED <<frontVars, active, memoizedFuncs, memoAttr, tables, pc, frame,
                   ncalls, ncompiled>>

\* the innermost with-block ends: __exit__ pops a device and calls use() on it
Exit(t) ==
    /\ pc[t] = "idle"
    /\ blocks # <<>>
    /\ LET o == blocks[Len(blocks)].obj
           i == StackTop(devStack[o])
       IN /\ curDev' = [curDev EXCEPT ![t] = devStack[o][i]]
          /\ devStack' = [devStack EXCEPT ![o] =
                            [n \in 1..(Len(@) - 1) |->
                                IF n < i THEN @[n] ELSE @[n + 1]]]
    /\ blocks' = SubSeq(blocks, 1, Len(blocks) - 1)
    /\ lastOp' = "exit"
    /\ UNCHANGED <<frontVars, active, memoizedFuncs, memoAttr, tables, pc, frame,
                   ncalls, ncompiled>>

\* Device(d).use() called directly
UseDevice(t, d) ==
    /\ Use(t, d)
    /\ lastOp' = "use"

MemoKeys == Funcs \X Devices \X Keys

InitMemoState ==
    /\ curDev = [t \in Threads |-> 0]
    /\ memoizedFuncs = <<>>
    /\ memoAttr = [f \in Funcs |-> 0]
    /\ tables = <<>>
    /\ pc = [t \in Threads |-> "idle"]
    /\ frame = [t \in Threads |-> NoFrame]
    /\ ncalls = 0
    /\ ncompiled = [x \in MemoKeys |-> 0]

InitDevState ==
    /\ devStack = [o \in DevObjs |-> <<>>]
    /\ blocks = <<>>
    /\ lastOp = "none"

\* --------------------------------------------- _reduce_dims (elementwise.py)
RECURSIVE Prod(_)
\* the element count of a shape
Prod(shape) == IF shape = <<>> THEN 1 ELSE Head(shape) * Prod(Tail(shape))

\* is_array_flags: not p.raw and isinstance(a, cupy.ndarray)
IsArrayFlag(a) == a.kind = "array"

\* (mutant) the axes merge as soon as one operand allows it
Mergeable_Any(shape, args, i) ==
    \E n \in 1..Len(args) :
        IsArrayFlag(args[n])
        /\ args[n].strides[i] * shape[i] = args[n].strides[i - 1]

\* the inner for loop with its else: no array operand breaks the relation
Mergeable(shape, args, i) ==
    \A n \in 1..Len(args) :
        IsArrayFlag(args[n]) =>
            args[n].strides[i] * shape[i] = args[n].strides[i - 1]

RECURSIVE MergeAxes(_, _, _)
\* for i in range(1, len(shape)): axes are 1-based here, so i runs from 2
MergeAxes(shape, args, i) ==
    IF i > Len(shape) THEN shape
    ELSE MergeAxes(
            IF Mergeable(shape, args, i)
            THEN [shape EXCEPT ![i] = shape[i] * shape[i - 1], ![i - 1] = 1]
            ELSE shape,
            args, i + 1)

\* (mutant) the axes of extent 1 are not dropped
KeepAxes_All(seq, shape) == seq

RECURSIVE KeepAxes(_, _)
\* tuple(s for i, s in enumerate(seq) if shape[i] != 1)
KeepAxes(seq, shape) ==
    IF seq = <<>> THEN <<>>
    ELSE (IF Head(shape) # 1 THEN <<Head(seq)>> ELSE <<>>)
         \o KeepAxes(Tail(seq), Tail(shape))

\* _reduce_dims(args, params, indexer): the new arguments and indexer shape
ReduceDims(args, shape) ==
    IF Len(shape) <= 1 THEN [args |-> args, shape |-> shape]
    ELSE LET merged == MergeAxes(shape, args, 2)
             newShape == KeepAxes(merged, merged)
         IN IF newShape = shape THEN [args |-> args, shape |-> shape]
            ELSE [args |-> [n \in 1..Len(args) |->
                              IF IsArrayFlag(args[n])
                              THEN [args[n] EXCEPT
                                      !.strides = KeepAxes(@, merged)]
                              ELSE args[n]],
                  shape |-> newShape]

RECURSIVE Offsets(_, _)
\* the offsets sum(index * stride) visited in row-major order over a shape
Offsets(shape, strides) ==
    IF shape = <<>> THEN <<0>>
    ELSE LET rest == Offsets(Tail(shape), Tail(strides))
             row[i \in 0..Head(shape)] ==
                IF i = 0 THEN <<>>
                ELSE row[i - 1]
                     \o [j \in 1..Len(rest) |->
                            (i - 1) * Head(strides) + rest[j]]
         IN row[Head(shape)]

\* the operands _reduce_dims may receive for an iteration shape: non-raw
\* arrays broadcast to the shape (any strides), raw arrays and scalars
Operands(rank) ==
    {[kind |-> "array", strides |-> st] :
        st \in [1..rank -> (0 - 1)..MaxStride]}
    \cup {[kind |-> "raw", strides |-> <<>>],
          [kind |-> "scalar", strides |-> <<>>]}

NoReduce == [phase |-> "none", shape |-> <<>>, args |-> <<>>,
             newShape |-> <<>>, newArgs |-> <<>>]

\* args, indexer = _reduce_dims(args, params, indexer)
Reduce ==
    /\ rd.phase = "args"
    /\ LET r == ReduceDims(rd.args, rd.shape)
       IN rd' = [rd EXCEPT !.phase = "reduced",
                           !.newShape = r.shape, !.newArgs = r.args]
    /\ UNCHANGED <<memoVars, devVars, tp, uf, call>>

\* --------------------------------------- _decide_params_type (elementwise.py)
\* the element types of the model, a part of _typenames
CallDTypes == {"float32", "int32"}
\* single-character type tags of generic parameters
Tags == {"T", "U"}
\* _typenames[numpy.dtype(dtype)]
TypeName(dtype) == IF dtype = "float32" THEN "float" ELSE "int"

\* ParameterInfo(str, is_const): a generic tag, or a concrete dtype
GenericParam(tag, raw) == [dtype |-> "None", ctype |-> tag, raw |-> raw]
ConcreteParam(dtype, raw) ==
    [dtype |-> dtype, ctype |-> TypeName(dtype), raw |-> raw]
ParamInfos(tags, raws) ==
    {GenericParam(g, r) : g \in tags, r \in raws}
    \cup {ConcreteParam(d, r) : d \in CallDTypes, r \in raws}

\* type_dict = {}
EmptyTypeDict == [err |-> "", dict |-> [g \in Tags |-> "None"]]

\* (mutant) a later operand silently rebinds the tag
BindParam_Rebind(td, p, a, isOut) ==
    IF td.err # "" THEN td
    ELSE IF a = "None"
         THEN (IF isOut THEN [td EXCEPT !.err = "TypeError"] ELSE td)
    ELSE IF p.dtype # "None"
         THEN (IF a # p.dtype THEN [td EXCEPT !.err = "TypeError"] ELSE td)
    ELSE [td EXCEPT !.dict[p.ctype] = a]

\* the body of one loop iteration over zip(params, args_dtype): lines 185-197
\* for an output, lines 202-216 for an input
BindParam(td, p, a, isOut) ==
    IF td.err # "" THEN td
    ELSE IF a = "None"
         THEN (IF isOut THEN [td EXCEPT !.err = "TypeError"] ELSE td)
    ELSE IF p.dtype # "None"
         THEN (IF a # p.dtype THEN [td EXCEPT !.err = "TypeError"] ELSE td)
    ELSE IF td.dict[p.ctype] # "None"
         THEN (IF td.dict[p.ctype] # a
               THEN [td EXCEPT !.err = "TypeError"] ELSE td)
    ELSE [td EXCEPT !.dict[p.ctype] = a]

RECURSIVE BindAll(_, _, _, _, _)
\* for p, a in six.moves.zip(params, args_dtype), from position i
BindAll(td, params, dts, isOut, i) ==
    IF i > Len(params) \/ i > Len(dts) THEN td
    ELSE BindAll(BindParam(td, params[i], dts[i], isOut),
                 params, dts, isOut, i + 1)

\* (mutant) a tag that no operand bound resolves to a default type
ParamType_Default(td, p) ==
    IF p.dtype # "None" THEN p.dtype
    ELSE IF td.dict[p.ctype] # "None" THEN td.dict[p.ctype]
    ELSE "float32"

\* p.dtype if p.dtype is not None else type_dict[p.ctype]; "None" stands for
\* the KeyError of a tag that is not in type_dict
ParamType(td, p) == IF p.dtype # "None" THEN p.dtype ELSE td.dict[p.ctype]

\* _decide_params_type(in_params, out_params, in_args_dtype, out_args_dtype)
DecideParamsType(inParams, outParams, inDts, outDts) ==
    IF outDts # <<>> /\ Len(outParams) # Len(outDts)
    THEN [status |-> "AssertionError", inTypes |-> <<>>, outTypes |-> <<>>,
          types |-> EmptyTypeDict.dict]
    ELSE LET afterOut == BindAll(EmptyTypeDict, outParams, outDts, TRUE, 1)
             td == BindAll(afterOut, inParams, inDts, FALSE, 1)
             inTypes == [i \in 1..Len(inParams) |-> ParamType(td, inParams[i])]
             outTypes == [i \in 1..Len(outParams) |->
                            ParamType(td, outParams[i])]
         IN IF td.err # ""
            THEN [status |-> td.err, inTypes |-> <<>>, outTypes |-> <<>>,
                  types |-> td.dict]
            ELSE IF \/ \E i \in 1..Len(inParams) : inTypes[i] = "None"
                    \/ \E i \in 1..Len(outParams) : outTypes[i] = "None"
            THEN [status |-> "KeyError", inTypes |-> <<>>, outTypes |-> <<>>,
                  types |-> td.dict]
            ELSE [status |-> "ok", inTypes |-> inTypes, outTypes |-> outTypes,
                  types |-> td.dict]

NoTypes == [phase |-> "none", inParams |-> <<>>, outParams |-> <<>>,
            inDts |-> <<>>, outDts |-> <<>>,
            result |-> [status |-> "", inTypes |-> <<>>, outTypes |-> <<>>,
                        types |-> EmptyTypeDict.dict]]

\* in_types, out_types, types = _decide_params_type(...)
Decide ==
    /\ tp.phase = "args"
    /\ tp' = [tp EXCEPT !.phase = "decided",
                        !.result = DecideParamsType(tp.inParams, tp.outParams,
                                                    tp.inDts, tp.outDts)]
    /\ UNCHANGED <<memoVars, devVars, rd, uf, call>>

\* ------------------------------------------ ufunc._guess_routine (elementwise.py)
\* the element types a ufunc is declared over
UfuncDTypes == {"int32", "float32", "float64"}

\* numpy.can_cast(t0, t1) under the default 'safe' rule
CanCast(t0, t1) ==
    \/ t0 = t1
    \/ t0 = "int32" /\ t1 = "float64"
    \/ t0 = "float32" /\ t1 = "float64"

\* min(len(a), len(b)): zip stops at the shorter sequence
ZipLen(a, b) == IF Len(a) < Len(b) THEN Len(a) ELSE Len(b)

\* (mutant) one castable input is enough
InTypesMatch_Any(inTypes, op) ==
    \E j \in 1..ZipLen(inTypes, op.in) : CanCast(inTypes[j], op.in[j])

\* all(numpy.can_cast(t0, t1) for t0, t1 in zip(in_types, op[0]))
InTypesMatch(inTypes, op) ==
    \A j \in 1..ZipLen(inTypes, op.in) : CanCast(inTypes[j], op.in[j])

\* all(t == dtype for t in op[1])
OutTypesMatch(dtype, op) ==
    \A j \in 1..Len(op.out) : op.out[j] = dtype

RECURSIVE GuessFromInTypes(_, _, _)
\* _guess_routine_from_in_types: the position of the op returned, 0 for None
GuessFromInTypes(ops, inTypes, i) ==
    IF i > Len(ops) THEN 0
    ELSE IF InTypesMatch(inTypes, ops[i]) THEN i
    ELSE GuessFromInTypes(ops, inTypes, i + 1)

RECURSIVE GuessFromDtype(_, _, _)
\* _guess_routine_from_dtype: the position of the op returned, 0 for None
GuessFromDtype(ops, dtype, i) ==
    IF i > Len(ops) THEN 0
    ELSE IF OutTypesMatch(dtype, ops[i]) THEN i
    ELSE GuessFromDtype(ops, dtype, i + 1)

\* key = tuple(i.dtype for i in in_args) if dtype is None else dtype: a tuple
\* of dtypes and a dtype are different keys of the dict
RoutineKey(inTypes, dtype) ==
    IF dtype = "None" THEN <<"in_types", inTypes>> ELSE <<"dtype", dtype>>

RoutineKeys ==
    {<<"in_types", ts>> : ts \in [1..2 -> UfuncDTypes]}
    \cup {<<"dtype", d>> : d \in UfuncDTypes}

\* self._routine_table.get(key, ()): -1 stands for the () of a missing key
Absent == 0 - 1

\* _guess_routine(in_args, dtype): the table afterwards and the outcome
GuessRoutine(ops, table, inTypes, dtype) ==
    LET key == RoutineKey(inTypes, dtype)
        scanned == table[key] = Absent
        op == IF ~scanned THEN table[key]
              ELSE IF dtype = "None" THEN GuessFromInTypes(ops, key[2], 1)
              ELSE GuessFromDtype(ops, key[2], 1)
    IN [table |-> IF scanned THEN [table EXCEPT ![key] = op] ELSE table,
        key |-> key, scanned |-> scanned, op |-> op,
        status |-> IF op # 0 THEN "ok" ELSE "TypeError"]

NoGuess == [key |-> <<>>, scanned |-> FALSE, op |-> 0, status |-> ""]
NoUfunc == [ops |-> <<>>, table |-> <<>>, nguess |-> 0, last |-> NoGuess]

\* in_types, out_types, routine = self._guess_routine(in_args, dtype)
Guess(inTypes, dtype) ==
    /\ uf.ops # <<>>
    /\ uf.nguess < MaxGuess
    /\ LET g == GuessRoutine(uf.ops, uf.table, inTypes, dtype)
       IN uf' = [uf EXCEPT !.table = g.table, !.nguess = @ + 1,
                           !.last = [key |-> g.key, scanned |-> g.scanned,
                                     op |-> g.op, status |-> g.status]]
    /\ UNCHANGED <<memoVars, devVars, rd, tp, call>>

\* ------------------------------------- cupy.broadcast (used by _broadcast)
\* the aligned extent of axis i of a shape padded on the left to rank ndim
ExtentAt(shape, ndim, i) ==
    IF i <= ndim - Len(shape) THEN 1 ELSE shape[i - (ndim - Len(shape))]

\* the stride of that axis, 0 for an axis the operand does not have
StrideAt(a, ndim, i) ==
    IF i <= ndim - Len(a.shape) THEN 0
    ELSE a.strides[i - (ndim - Len(a.shape))]

MaxOf(S) == CHOOSE x \in S : \A y \in S : y <= x

\* cupy.broadcast(*arrays): the common shape of the arrays at the positions
\* in idx, whether they are compatible, and each array replicated to it
Broadcast(vals, idx) ==
    LET ndim == IF idx = {} THEN 0 ELSE MaxOf({Len(vals[i].shape) : i \in idx})
        exts(ax) == {ExtentAt(vals[i].shape, ndim, ax) : i \in idx} \ {1}
        ok == \A ax \in 1..ndim : Cardinality(exts(ax)) <= 1
        shape == [ax \in 1..ndim |->
                    IF exts(ax) = {} THEN 1 ELSE CHOOSE e \in exts(ax) : TRUE]
    IN [ok |-> ok, shape |-> shape, size |-> Prod(shape),
        values |-> [i \in 1..Len(vals) |->
            IF i \in idx
            THEN [vals[i] EXCEPT
                    !.shape = shape,
                    !.strides = [ax \in 1..ndim |->
                        IF ExtentAt(vals[i].shape, ndim, ax) = shape[ax]
                        THEN StrideAt(vals[i], ndim, ax) ELSE 0]]
            ELSE vals[i]]]

\* ------------------------------ ElementwiseKernel.__call__ (elementwise.py)
RECURSIVE ContigStrides(_)
\* the strides, in elements, of a C-contiguous array of a shape
ContigStrides(shape) ==
    IF shape = <<>> THEN <<>>
    ELSE <<Prod(Tail(shape))>> \o ContigStrides(Tail(shape))

\* the shapes of the arrays handed to a call
CallShapes == {<<0>>, <<1>>, <<2>>, <<1, 2>>, <<2, 1>>, <<2, 2>>}

\* cupy.ndarray arguments: C-contiguous, on some device
ArrayArgs ==
    {[kind |-> "array", shape |-> sh, strides |-> ContigStrides(sh),
      dtype |-> d, dev |-> v] :
        sh \in CallShapes, d \in CallDTypes, v \in Devices}

\* a Python or numpy scalar, a numpy.ndarray, a value of an unsupported type
OtherArg(kind) ==
    [kind |-> kind, shape |-> <<>>, strides |-> <<>>, dtype |-> "None",
     dev |-> 0]

ArgValues == ArrayArgs \cup {OtherArg("scalar"), OtherArg("numpy"),
                             OtherArg("other")}

\* _check_args(args): the first argument that is rejected decides the error
CheckArgs(args, dev) ==
    LET bad == {i \in 1..Len(args) :
                    \/ args[i].kind = "array" /\ args[i].dev # dev
                    \/ args[i].kind \notin {"array", "scalar"}}
    IN IF bad = {} THEN ""
       ELSE LET i == CHOOSE j \in bad : \A m \in bad : j <= m
            IN IF args[i].kind = "array" THEN "device" ELSE "unsupported"

\* (mutant) raw arrays take part in the broadcast
BroadcastPositions_Raw(args, params) ==
    {i \in 1..Len(args) : args[i].kind = "array"}

\* the positions _broadcast hands to cupy.broadcast as arrays:
\* not p.raw and isinstance(a, cupy.ndarray)
BroadcastPositions(args, params) ==
    {i \in 1..Len(args) : args[i].kind = "array" /\ ~params[i].raw}

\* _get_ndarray_dtype(args)
NdarrayDType(args) ==
    [i \in 1..Len(args) |->
        IF args[i].kind = "array" THEN args[i].dtype ELSE "None"]

\* the operands as _reduce_dims classifies them
ReduceOperands(args, params) ==
    [i \in 1..Len(args) |->
        [kind |-> IF args[i].kind # "array" THEN "scalar"
                  ELSE IF params[i].raw THEN "raw" ELSE "array",
         shape |-> args[i].shape, strides |-> args[i].strides]]

\* the outcome of a call that has not got anywhere yet
NoOutcome ==
    [status |-> "", error |-> "", brod |-> <<>>, brodSize |-> 0,
     typed |-> FALSE, allocated |-> FALSE, kernel |-> FALSE,
     launched |-> FALSE, launchSize |-> 0, indexer |-> <<>>,
     ret |-> <<>>, inout |-> <<>>, inTypes |-> <<>>, outTypes |-> <<>>]

Raise(o, status, error) == [o EXCEPT !.status = status, !.error = error]

\* out_args = value[self.nin:]: the outputs as _broadcast returned them
OutArgsChecked(args, values, nin) ==
    SubSeq(values, nin + 1, Len(values))

\* n = kwargs.pop('size', None): -1 stands for None
NoSize == 0 - 1

\* size_error of _broadcast(args, self.params, n is None)
SizeError(size) == size = NoSize

\* _get_out_args(in_args, out_args, out_types, out_shape, out_params): the
\* error it raises ("" for none) for the outputs handed in; <<>> stands for
\* out_params=None
GetOutArgsError(outArgs, outShape, outParams) ==
    IF Len(outArgs) = 0
    THEN (IF \E i \in 1..Len(outParams) : outParams[i].raw
          THEN "out_undecided" ELSE "")
    ELSE IF \E i \in 1..Len(outArgs) : outArgs[i].kind # "array"
         THEN "out_type"
    ELSE IF \E i \in 1..Len(outArgs) :
                /\ outArgs[i].shape # outShape
                /\ (outParams = <<>> \/ ~outParams[i].raw)
         THEN "out_shape"
    ELSE ""

\* lines 370-389: ret, the indexer, the empty-size return, and the launch
Dispatch(o, k, inoutArgs, outShapes, size) ==
    LET params == k.inParams \o k.outParams
        indexer == IF size = NoSize THEN o.brod ELSE <<size>>
        o1 == [o EXCEPT !.ret = outShapes, !.indexer = indexer]
    IN IF o.brodSize = 0 THEN [o1 EXCEPT !.status = "ok"]
       ELSE IF ~k.reduceDims
       THEN Raise(o1, "AttributeError", "append")
       ELSE LET r == ReduceDims(ReduceOperands(inoutArgs, params), indexer)
            IN [o1 EXCEPT !.status = "ok", !.kernel = TRUE,
                          !.launched = TRUE, !.indexer = r.shape,
                          !.launchSize = Prod(r.shape), !.inout = r.args]

\* ElementwiseKernel.__call__(*args, size=size) while device dev is current
ElementwiseCall(k, args, size, dev) ==
    LET nin == Len(k.inParams)
        nout == Len(k.outParams)
        params == k.inParams \o k.outParams
        o == NoOutcome
    IN IF Len(args) \notin {nin, nin + nout}
       THEN Raise(o, "TypeError", "nargs")
       ELSE IF \E i \in 1..Len(args) : args[i].kind = "numpy"
       THEN Raise(o, "TypeError", "unsupported")
       ELSE IF CheckArgs(args, dev) = "device"
       THEN Raise(o, "ValueError", "device")
       ELSE IF CheckArgs(args, dev) = "unsupported"
       THEN Raise(o, "TypeError", "unsupported")
       ELSE LET idx == BroadcastPositions(args, params)
                b == Broadcast(args, idx)
            IN IF ~b.ok THEN Raise(o, "ValueError", "broadcast")
               ELSE IF SizeError(size) /\ idx = {}
               THEN Raise(o, "ValueError", "undecided")
               ELSE
    LET ob == [o EXCEPT !.brod = b.shape, !.brodSize = b.size]
        inArgs == SubSeq(b.values, 1, nin)
        outArgs == OutArgsChecked(args, b.values, nin)
        t == DecideParamsType(k.inParams, k.outParams,
                              NdarrayDType(inArgs), NdarrayDType(outArgs))
    IN IF t.status = "TypeError" THEN Raise(ob, "TypeError", "types")
       ELSE IF t.status # "ok" THEN Raise(ob, t.status, "unbound")
       ELSE
    LET ot == [ob EXCEPT !.typed = TRUE, !.inTypes = t.inTypes,
                         !.outTypes = t.outTypes]
        e == GetOutArgsError(outArgs, b.shape, k.outParams)
        allocated == [i \in 1..nout |->
                        [kind |-> "array", shape |-> b.shape,
                         strides |-> ContigStrides(b.shape),
                         dtype |-> t.outTypes[i], dev |-> dev]]
        outs == IF Len(outArgs) = 0 THEN allocated ELSE outArgs
    IN IF e = "out_type" THEN Raise(ot, "TypeError", e)
       ELSE IF e # "" THEN Raise(ot, "ValueError", e)
       ELSE Dispatch([ot EXCEPT !.allocated = Len(outArgs) = 0], k,
                     inArgs \o outs,
                     [i \in 1..Len(outs) |-> outs[i].shape], size)

\* ElementwiseKernel(in_params, out_params, operation, reduce_dims=...): the
\* kernels of the model have one input and one output parameter
Kernels ==
    [inParams : [1..1 -> ParamInfos({"T"}, BOOLEAN)],
     outParams : [1..1 -> ParamInfos({"T"}, BOOLEAN)],
     reduceDims : BOOLEAN]

\* size=None or an explicit size
Sizes == {NoSize} \cup 0..MaxSize

\* out=None, dtype=None of ufunc.__call__
NoOut == OtherArg("none")

NoCall == [phase |-> "idle", fn |-> "", kernel |-> <<>>, args |-> <<>>,
           size |-> NoSize, outKw |-> NoOut, dtype |-> "None",
           out |-> NoOutcome]

\* kernel(*args, size=size) runs to its return or to the exception it raises
CallKernel(k, args, size) ==
    /\ call.phase = "idle"
    /\ call' = [phase |-> "done", fn |-> "ElementwiseKernel", kernel |-> k,
                args |-> args, size |-> size, outKw |-> NoOut,
                dtype |-> "None",
                out |-> ElementwiseCall(k, args, size, curDev[1])]
    /\ UNCHANGED <<memoVars, devVars, rd, tp, uf>>

\* the caller has the result (or the exception) and goes on
Resume ==
    /\ call.phase = "done"
    /\ call' = NoCall
    /\ UNCHANGED <<memoVars, devVars, rd, tp, uf>>

\* ------------------------------------------- ufunc.__call__ (elementwise.py)
\* _in_params, _out_params of ufunc.__init__: 'T in0', 'T out0', never raw
UfuncParams ==
    [inParams |-> <<GenericParam("T", FALSE)>>,
     outParams |-> <<GenericParam("T", FALSE)>>, reduceDims |-> TRUE]

\* the ops of a ufunc of one input and one output: 'i->i', 'f->f', 'd->d'
CopyOps ==
    <<[in |-> <<"int32">>, out |-> <<"int32">>],
      [in |-> <<"float32">>, out |-> <<"float32">>],
      [in |-> <<"float64">>, out |-> <<"float64">>]>>

\* the keys _routine_table can get for a ufunc of one input
CopyKeys ==
    {<<"in_types", <<t>>>> : t \in UfuncDTypes}
    \cup {<<"dtype", d>> : d \in UfuncDTypes}

\* numpy.dtype(type(i)).type(i) of a Python float, x.dtype of an array
InArgDType(a) == IF a.kind = "array" THEN a.dtype ELSE "float64"

\* lines 519-537: ret, the empty-shape return, and the launch
UfuncDispatch(o, inoutArgs, outShapes) ==
    LET o1 == [o EXCEPT !.ret = outShapes, !.indexer = o.brod]
        params == UfuncParams.inParams \o UfuncParams.outParams
    IN IF \E i \in 1..Len(o.brod) : o.brod[i] = 0
       THEN [o1 EXCEPT !.status = "ok"]
       ELSE LET r == ReduceDims(ReduceOperands(inoutArgs, params), o.brod)
            IN [o1 EXCEPT !.status = "ok", !.kernel = TRUE,
                          !.launched = TRUE, !.indexer = r.shape,
                          !.launchSize = Prod(r.shape), !.inout = r.args]

\* ufunc.__call__(*args, out=outKw, dtype=dtype) of a ufunc with the ops and
\* the _routine_table given, while device dev is current: the outcome and
\* the _routine_table it leaves
UfuncCall(ops, table, args, outKw, dtype, dev) ==
    LET nin == Len(UfuncParams.inParams)
        nout == Len(UfuncParams.outParams)
        o == NoOutcome
        b == Broadcast(args, 1..Len(args))
        inArgs == SubSeq(b.values, 1, nin)
        given == SubSeq(args, nin + 1, Len(args))
        outArgs == IF outKw # NoOut THEN <<outKw>> ELSE given
        chk == CheckArgs(inArgs \o outArgs, dev)
        g == GuessRoutine(ops, table,
                          [i \in 1..nin |-> InArgDType(inArgs[i])], dtype)
    IN IF Len(args) \notin {nin, nin + nout}
       THEN [out |-> Raise(o, "TypeError", "nargs"), table |-> table]
       ELSE IF ~b.ok
       THEN [out |-> Raise(o, "ValueError", "broadcast"), table |-> table]
       ELSE IF outKw # NoOut /\ Len(given) # 0
       THEN [out |-> Raise(o, "ValueError", "out_twice"), table |-> table]
       ELSE IF chk = "device"
       THEN [out |-> Raise(o, "ValueError", "device"), table |-> table]
       ELSE IF chk = "unsupported"
       THEN [out |-> Raise(o, "TypeError", "unsupported"), table |-> table]
       ELSE
    LET ob == [o EXCEPT !.brod = b.shape, !.brodSize = b.size]
    IN IF g.status # "ok"
       THEN [out |-> Raise(ob, "TypeError", "types"), table |-> g.table]
       ELSE
    LET ot == [ob EXCEPT !.typed = TRUE, !.inTypes = ops[g.op].in,
                         !.outTypes = ops[g.op].out]
        e == GetOutArgsError(outArgs, b.shape, <<>>)
        allocated == [i \in 1..nout |->
                        [kind |-> "array", shape |-> b.shape,
                         strides |-> ContigStrides(b.shape),
                         dtype |-> ops[g.op].out[i], dev |-> dev]]
        outs == IF Len(outArgs) = 0 THEN allocated ELSE outArgs
    IN IF e = "out_type"
       THEN [out |-> Raise(ot, "TypeError", e), table |-> g.table]
       ELSE IF e # ""
       THEN [out |-> Raise(ot, "ValueError", e), table |-> g.table]
       ELSE [out |-> UfuncDispatch([ot EXCEPT !.allocated = Len(outArgs) = 0],
                                   inArgs \o outs,
                                   [i \in 1..Len(outs) |-> outs[i].shape]),
             table |-> g.table]

\* the arguments handed to ufunc calls: arrays and Python floats
UfuncArgs == ArrayArgs \cup {OtherArg("scalar")}

\* the values of out=: None, a float32 array, a Python float
OutKws ==
    {NoOut, OtherArg("scalar")}
        \cup {a \in ArrayArgs : a.dtype = "float32" /\ a.dev = 0}

\* the values of dtype=
DTypeKws == {"None", "float32"}

\* u(*args, out=outKw, dtype=dtype) runs to its return or to its exception
CallUfunc(args, outKw, dtype) ==
    /\ call.phase = "idle"
    /\ LET r == UfuncCall(uf.ops, uf.table, args, outKw, dtype, curDev[1])
       IN /\ call' = [phase |-> "done", fn |-> "ufunc",
                      kernel |-> UfuncParams, args |-> args,
                      size |-> NoSize, outKw |-> outKw, dtype |-> dtype,
                      out |-> r.out]
          /\ uf' = [uf EXCEPT !.table = r.table]
    /\ UNCHANGED <<memoVars, devVars, rd, tp>>

InitFront == rd = NoReduce /\ tp = NoTypes /\ uf = NoUfunc /\ call = NoCall
InitReduce ==
    /\ active = {1} /\ InitMemoState /\ InitDevState
    /\ tp = NoTypes /\ uf = NoUfunc /\ call = NoCall
    /\ \E r \in 0..MaxRank, n \in 1..MaxArgs :
        \E sh \in [1..r -> 1..MaxExtent], as \in [1..n -> Operands(r)] :
            rd = [phase |-> "args", shape |-> sh, args |-> as,
                  newShape |-> <<>>, newArgs |-> <<>>]

\* the dtypes _get_ndarray_dtype gives: a dtype for an array, None otherwise
ArgDTypes == CallDTypes \cup {"None"}

InitTypes ==
    /\ active = {1} /\ InitMemoState /\ InitDevState
    /\ rd = NoReduce /\ uf = NoUfunc /\ call = NoCall
    /\ \E nin \in 1..MaxIn, nout \in 1..MaxOut :
        \E ip \in [1..nin -> ParamInfos(Tags, {FALSE})],
           op \in [1..nout -> ParamInfos(Tags, {FALSE})],
           id \in [1..nin -> ArgDTypes],
           od \in [1..nout -> ArgDTypes] \cup {<<>>} :
            tp = [NoTypes EXCEPT !.phase = "args", !.inParams = ip,
                                 !.outParams = op, !.inDts = id, !.outDts = od]

\* ufunc.__init__(name, nin, nout, ops): two inputs, one output
UfuncOps == [in : [1..2 -> UfuncDTypes], out : [1..1 -> UfuncDTypes]]

InitUfunc ==
    /\ active = {1} /\ InitMemoState /\ InitDevState
    /\ rd = NoReduce /\ tp = NoTypes /\ call = NoCall
    /\ \E n \in 1..MaxOps : \E ops \in [1..n -> UfuncOps] :
        uf = [NoUfunc EXCEPT !.ops = ops,
                             !.table = [k \in RoutineKeys |-> Absent]]

\* one thread: any sequence of calls and device switches
InitSeq == active = {1} /\ InitMemoState /\ InitDevState /\ InitFront

\* several threads calling concurrently
InitConc == active = Threads /\ InitMemoState /\ InitDevState /\ InitFront

NextMemo ==
    \/ \E t \in active, f \in Funcs, k \in Keys : Call(t, f, k)
    \/ \E t \in active : HasAttr(t)
    \/ \E t \in active : AppendFunc(t)
    \/ \E t \in active : SetAttr(t)
    \/ \E t \in active : GetMemo(t)
    \/ \E t \in active : Get(t)
    \/ \E t \in active : Compile(t)
    \/ \E t \in active : Store(t)
    \/ \E t \in active : Return(t)
    \/ \E t \in active, d \in Devices : Use(t, d) /\ UNCHANGED lastOp

\* one thread entering and leaving with-blocks over Device objects
NextDev ==
    \/ \E t \in active, o \in DevObjs : Enter(t, o)
    \/ \E t \in active : Exit(t)
    \/ \E t \in active, d \in Devices : UseDevice(t, d)

SpecSeq == InitSeq /\ [][NextMemo]_vars
SpecConc == InitConc /\ [][NextMemo]_vars
SpecDev == InitSeq /\ [][NextDev]_vars

\* one thread calling memoized functions and clear_device_dependent_memo
NextClear ==
    \/ NextMemo
    \/ \E t \in active : Clear(t)
SpecClear == InitSeq /\ [][NextClear]_vars

\* _reduce_dims applied to every operand layout within the bounds
NextReduce == Reduce
SpecReduce == InitReduce /\ [][NextReduce]_vars

\* _decide_params_type applied to every parameter list within the bounds
NextTypes == Decide
SpecTypes == InitTypes /\ [][NextTypes]_vars

\* any sequence of _guess_routine calls on one ufunc
NextUfunc ==
    \/ \E ts \in [1..2 -> UfuncDTypes] : Guess(ts, "None")
    \/ \E ts \in [1..2 -> UfuncDTypes], d \in UfuncDTypes : Guess(ts, d)
SpecUfunc == InitUfunc /\ [][NextUfunc]_vars

\* calls of ElementwiseKernel objects, one after the other
NextKernel ==
    \/ /\ call.phase = "idle"
       /\ \E k \in Kernels, n \in 0..2 :
            \E args \in [1..n -> ArgValues], size \in Sizes :
                CallKernel(k, args, size)
    \/ Resume
SpecKernel == InitSeq /\ [][NextKernel]_vars

\* calls of one ufunc, one after the other
InitUfuncCall ==
    /\ active = {1} /\ InitMemoState /\ InitDevState
    /\ rd = NoReduce /\ tp = NoTypes /\ call = NoCall
    /\ uf = [NoUfunc EXCEPT !.ops = CopyOps,
                            !.table = [k \in CopyKeys |-> Absent]]
NextUfuncCall ==
    \/ /\ call.phase = "idle"
       /\ \E n \in 0..2 :
            \E args \in [1..n -> UfuncArgs], o \in OutKws, d \in DTypeKws :
                CallUfunc(args, o, d)
    \/ Resume
SpecUfuncCall == InitUfuncCall /\ [][NextUfuncCall]_vars

\* ------------------------------------------------------------------ claims
\* C1: two calls of a memoized kernel getter with equal arguments under the
\* same current device return the same handle, the one the only execution of
\* the wrapped function for that key made; a hit never runs it again.
C1_SameHandleCompiledOnce ==
    /\ \A x \in MemoKeys : ncompiled[x] <= 1
    /\ \A t \in active :
        pc[t] = "return" =>
            frame[t].result = Handle(frame[t].f, curDev[t], frame[t].key, 1)

\* a second call has reached its return while the wrapped function ran once
C1_Witness ==
    /\ pc[1] = "return"
    /\ ncalls = 2
    /\ \E x \in MemoKeys :
        /\ ncompiled[x] = 1
        /\ x = <<frame[1].f, curDev[1], frame[1].key>>
        /\ \A y \in MemoKeys \ {x} : ncompiled[y] = 0

\* C2: the memo is partitioned by the current device: a call returns a handle
\* made under the device current at the call and stored under that device,
\* and no step changes an entry already stored (under any device).
C2_EntriesKept ==
    \A i \in 1..Len(tables), d \in Devices, k \in Keys :
        tables[i][d][k] # NoHandle => tables'[i][d][k] = tables[i][d][k]

C2_PartitionedByDevice ==
    /\ [](\A t \in active :
            pc[t] = "return" =>
                /\ HandleDev(frame[t].result) = curDev[t]
                /\ tables[memoAttr[frame[t].f]][curDev[t]][frame[t].key]
                       = frame[t].result)
    /\ [][C2_EntriesKept]_vars

\* equal arguments are cached under two devices, with two different handles
C2_Witness ==
    \E f \in Funcs, k \in Keys :
        /\ memoAttr[f] # 0
        /\ pc[1] = "return" /\ frame[1].f = f /\ frame[1].key = k
        /\ curDev[1] = 1
        /\ tables[memoAttr[f]][0][k] # NoHandle
        /\ tables[memoAttr[f]][1][k] # NoHandle
        /\ tables[memoAttr[f]][0][k] # tables[memoAttr[f]][1][k]

\* C3: with several threads calling concurrently, the wrapped function runs
\* at most once per (function, device, key), at most one execution for a key
\* is in flight, and a thread that reads the cache after an execution for its
\* key has been stored finds the entry.
C3_InFlight(x) ==
    {t \in active : pc[t] = "compile"
                    /\ <<frame[t].f, frame[t].dev, frame[t].key>> = x}

C3_Pending(x) ==
    {t \in active : pc[t] \in {"compile", "store"}
                    /\ <<frame[t].f, frame[t].dev, frame[t].key>> = x}

C3_AtMostOneCompilePerKey ==
    /\ \A x \in MemoKeys : ncompiled[x] <= 1
    /\ \A x \in MemoKeys : Cardinality(C3_InFlight(x)) <= 1
    /\ \A t \in active :
        LET x == <<frame[t].f, frame[t].dev, frame[t].key>>
        IN (pc[t] = "get" /\ ncompiled[x] >= 1 /\ C3_Pending(x) = {})
            => MemoGet(t) # NoHandle

\* C10: entering a with-block over a Device object makes its device current;
\* leaving a block restores the device that was current just before the
\* matching entry; with no block open every _device_stack is empty.
C10_EnterExitStep ==
    /\ Len(blocks') = Len(blocks) + 1 =>
            curDev'[1] = ObjId(blocks'[Len(blocks')].obj)
    /\ Len(blocks') = Len(blocks) - 1 =>
            curDev'[1] = blocks[Len(blocks)].prev

C10_WithRestoresDevice ==
    /\ [][C10_EnterExitStep]_vars
    /\ [](blocks = <<>> => \A o \in DevObjs : devStack[o] = <<>>)

\* the same object was entered twice, nested inside another device's block,
\* and the innermost block has just been left
C10_Witness ==
    /\ lastOp = "exit"
    /\ Len(blocks) = 2
    /\ blocks[1].obj = <<0, 1>>
    /\ blocks[2].obj = <<1, 1>>
    /\ blocks[1].prev = 1
    /\ curDev[1] = 1
    /\ devStack[<<0, 1>>] = <<1>>

\* C5: for an iteration shape of rank >= 2 and non-raw array operands of that
\* shape, _reduce_dims keeps the element count, and every operand visits the
\* same memory offsets in the same order over the reduced shape and strides.
C5_ReductionKeepsOffsets ==
    (rd.phase = "reduced" /\ Len(rd.shape) >= 2) =>
        /\ Prod(rd.newShape) = Prod(rd.shape)
        /\ Len(rd.newArgs) = Len(rd.args)
        /\ \A n \in 1..Len(rd.args) :
            IsArrayFlag(rd.args[n]) =>
                /\ Len(rd.newArgs[n].strides) = Len(rd.newShape)
                /\ Offsets(rd.newShape, rd.newArgs[n].strides)
                       = Offsets(rd.shape, rd.args[n].strides)

\* three axes merged into one for two operands, one of them broadcast
C5_Witness ==
    /\ rd.phase = "reduced"
    /\ rd.shape = <<2, 1, 2>>
    /\ rd.newShape = <<4>>
    /\ Len(rd.args) = 2
    /\ rd.args[1].kind = "array" /\ rd.args[1].strides = <<2, 2, 1>>
    /\ rd.args[2].kind = "array" /\ rd.args[2].strides = <<0, 0, 0>>
    /\ rd.newArgs[1].strides = <<1>>
    /\ rd.newArgs[2].strides = <<0>>

\* C6: the operands that can bind a generic tag, in scanning order: supplied
\* outputs first, then array inputs
C6_Observations ==
    LET outs == [i \in 1..Len(tp.outDts) |->
                    [p |-> tp.outParams[i], a |-> tp.outDts[i]]]
        ins == [i \in 1..Len(tp.inDts) |->
                    [p |-> tp.inParams[i], a |-> tp.inDts[i]]]
    IN SelectSeq(outs \o ins, LAMBDA o : o.p.dtype = "None" /\ o.a # "None")

C6_FirstObserved(g) ==
    LET obs == SelectSeq(C6_Observations, LAMBDA o : o.p.ctype = g)
    IN IF obs = <<>> THEN "None" ELSE obs[1].a

\* C6: a generic tag is bound by the first concrete type observed for it
\* (supplied outputs first, then array inputs); every parameter carrying the
\* tag gets that type in the returned signature, and an array operand with
\* the same tag and another dtype makes resolution fail with a TypeError.
C6_TagBoundOnce ==
    tp.phase = "decided" =>
        /\ (\E i, j \in 1..Len(C6_Observations) :
                /\ C6_Observations[i].p.ctype = C6_Observations[j].p.ctype
                /\ C6_Observations[i].a # C6_Observations[j].a)
            => tp.result.status = "TypeError"
        /\ tp.result.status = "ok" =>
            /\ \A i \in 1..Len(tp.inParams) :
                tp.inParams[i].dtype = "None" =>
                    /\ tp.result.inTypes[i] \in CallDTypes
                    /\ tp.result.inTypes[i]
                           = C6_FirstObserved(tp.inParams[i].ctype)
            /\ \A i \in 1..Len(tp.outParams) :
                tp.outParams[i].dtype = "None" =>
                    /\ tp.result.outTypes[i] \in CallDTypes
                    /\ tp.result.outTypes[i]
                           = C6_FirstObserved(tp.outParams[i].ctype)

\* input T bound by a float32 array, the output declared T left unallocated:
\* the output is typed float32
C6_Witness ==
    /\ tp.phase = "decided"
    /\ tp.inParams = <<GenericParam("T", FALSE)>>
    /\ tp.outParams = <<GenericParam("T", FALSE)>>
    /\ tp.inDts = <<"float32">>
    /\ tp.outDts = <<>>
    /\ tp.result.status = "ok"
    /\ tp.result.outTypes = <<"float32">>

\* C7: whether a declared triple qualifies for the key of the last call
C7_Qualifies(i) ==
    IF uf.last.key[1] = "in_types"
    THEN \A j \in 1..2 : CanCast(uf.last.key[2][j], uf.ops[i].in[j])
    ELSE uf.ops[i].out = <<uf.last.key[2]>>

\* C7: _guess_routine returns the first declared triple, in declaration
\* order, whose input types are all safely castable from the supplied ones
\* (no dtype requested) or whose output types all equal the requested dtype;
\* it raises TypeError when no triple qualifies; the answer is the same from
\* the _routine_table memo as from a fresh scan.
C7_FirstQualifyingTriple ==
    uf.last.status # "" =>
        IF \E i \in 1..Len(uf.ops) : C7_Qualifies(i)
        THEN /\ uf.last.status = "ok"
             /\ uf.last.op \in 1..Len(uf.ops)
             /\ C7_Qualifies(uf.last.op)
             /\ \A j \in 1..(uf.last.op - 1) : ~C7_Qualifies(j)
        ELSE uf.last.status = "TypeError"

\* a repeated call answered from _routine_table: the second declared triple,
\* reached by a safe upcast of (int32, float64)
C7_Witness ==
    /\ uf.last.status = "ok"
    /\ ~uf.last.scanned
    /\ uf.last.key = <<"in_types", <<"int32", "float64">>>>
    /\ Len(uf.ops) = 2
    /\ uf.ops[1].in = <<"int32", "int32">>
    /\ uf.ops[2].in = <<"float64", "float64">>
    /\ uf.last.op = 2

\* the parameters of the kernel called, inputs then outputs
CallParams == call.kernel.inParams \o call.kernel.outParams

\* the call went through the argument checks and the broadcast
CallBroadcast ==
    /\ call.phase = "done"
    /\ call.out.error \notin
            {"nargs", "unsupported", "device", "broadcast", "undecided"}

\* C4: the number of elements of the iteration space of the call: the
\* explicit size when one is given, the size of the broadcast otherwise
C4_IterationSize ==
    IF call.size # NoSize THEN call.size ELSE call.out.brodSize

\* C4: a call whose iteration space has no element returns its outputs with
\* no kernel made or launched, and a call whose iteration space has elements
\* is not skipped.
C4_EmptySpaceSkipsLaunch ==
    (call.phase = "done" /\ call.out.status = "ok") =>
        /\ C4_IterationSize = 0 => ~call.out.kernel /\ ~call.out.launched
        /\ C4_IterationSize # 0 => call.out.launched

\* C8: every operand of the call is raw or a scalar
C8_AllRawOrScalar ==
    /\ call.phase = "done"
    /\ call.fn = "ElementwiseKernel"
    /\ Len(call.args) \in {1, 2}
    /\ \A i \in 1..Len(call.args) :
        \/ call.args[i].kind = "scalar"
        \/ call.args[i].kind = "array" /\ CallParams[i].raw

\* C8: what the claim says of such a call: without size= it fails with
\* 'Loop size is Undecided' before anything else is done, with size= it does
\* not raise that error
C8_Undecided ==
    /\ call.size = NoSize =>
        /\ call.out.status = "ValueError" /\ call.out.error = "undecided"
        /\ ~call.out.typed /\ ~call.out.allocated
        /\ ~call.out.kernel /\ ~call.out.launched
    /\ call.size # NoSize =>
        /\ call.out.error # "undecided"
        /\ call.out.error = "" => call.out.brod = <<>>

\* C8 as claimed: every call whose operands are all raw or scalars
C8_UndecidedWhenNoShape == C8_AllRawOrScalar => C8_Undecided

\* C8 as amended: the same, for calls whose array operands are all on the
\* current device (the calls that pass _check_args)
C8_UndecidedAfterCheckArgs ==
    (C8_AllRawOrScalar /\ CheckArgs(call.args, curDev[1]) = "")
        => C8_Undecided

\* a raw array on the current device and no size=: the loop size is undecided
C8_Witness ==
    /\ C8_AllRawOrScalar
    /\ call.size = NoSize
    /\ Len(call.args) = 1
    /\ call.args[1].kind = "array" /\ call.args[1].dev = curDev[1]
    /\ call.args[1].shape = <<2, 2>>
    /\ call.out.error = "undecided"

\* the outputs the caller supplied, positionally or with out=
C9_SuppliedOutputs ==
    IF call.outKw # NoOut THEN <<call.outKw>>
    ELSE SubSeq(call.args, Len(call.kernel.inParams) + 1, Len(call.args))

\* C9: a supplied non-raw output array whose shape is not the shape the
\* operands of the call broadcast to makes the call fail with a ValueError,
\* and no kernel is launched (of the calls that got as far as the outputs:
\* arguments accepted, broadcast made, types resolved).
C9_OutputShapeChecked ==
    (/\ CallBroadcast
     /\ call.out.typed
     /\ call.kernel.reduceDims
     /\ \E i \in 1..Len(C9_SuppliedOutputs) :
            /\ C9_SuppliedOutputs[i].kind = "array"
            /\ ~call.kernel.outParams[i].raw
            /\ C9_SuppliedOutputs[i].shape # call.out.brod)
    => call.out.status = "ValueError" /\ ~call.out.launched

\* the call got past the argument checks, the broadcast, the type resolution
\* and _get_out_args, and its iteration space has elements
C11_ReachesLaunch ==
    /\ CallBroadcast
    /\ call.fn = "ElementwiseKernel"
    /\ call.out.typed
    /\ call.out.error \notin {"out_type", "out_shape", "out_undecided"}
    /\ call.out.brodSize # 0
    /\ C4_IterationSize # 0

\* C11: a call of a kernel constructed with reduce_dims=False over a
\* non-empty iteration space completes: the kernel is launched over the
\* unreduced indexer, no axes merged.
C11_UnreducedCallLaunches ==
    (C11_ReachesLaunch /\ ~call.kernel.reduceDims) =>
        /\ call.out.status = "ok"
        /\ call.out.launched
        /\ call.out.indexer =
                (IF call.size = NoSize THEN call.out.brod
                 ELSE <<call.size>>)
        /\ call.out.launchSize = Prod(call.out.indexer)

\* C12: every non-raw array operand has stride[i] * extent[i] = stride[i-1]
\* for the adjacent axes i-1 and i of the shape handed in
C12_Contiguous(i) ==
    \A n \in 1..Len(rd.args) :
        rd.args[n].kind = "array" =>
            rd.args[n].strides[i] * rd.shape[i] = rd.args[n].strides[i - 1]

\* the first axis of the run of merged axes that ends at axis j
C12_RunStart(j) ==
    CHOOSE k \in 1..j :
        /\ \A m \in (k + 1)..j : C12_Contiguous(m)
        /\ k > 1 => ~C12_Contiguous(k)

\* the extent of the axis the run ending at j is merged into
C12_RunExtent(j) == Prod(SubSeq(rd.shape, C12_RunStart(j), j))

\* the axes that survive: the last axis of each run, unless its extent is 1
C12_Kept ==
    {j \in 1..Len(rd.shape) :
        /\ j = Len(rd.shape) \/ ~C12_Contiguous(j + 1)
        /\ C12_RunExtent(j) # 1}

\* the k-th surviving axis, in the order of the axes
C12_KeptAxis(k) ==
    CHOOSE j \in C12_Kept : Cardinality({m \in C12_Kept : m <= j}) = k

\* C12: adjacent axes are merged exactly when every non-raw array operand is
\* contiguous across them; the merged axis has the product of the extents and
\* the stride of its last axis; axes keep their order; axes of extent 1 are
\* dropped from the shape and the strides; raw operands and scalars are left
\* alone; a shape of rank <= 1 is returned unchanged.
C12_MergeIffAllContiguous ==
    rd.phase = "reduced" =>
        IF Len(rd.shape) <= 1
        THEN rd.newShape = rd.shape /\ rd.newArgs = rd.args
        ELSE /\ rd.newShape =
                    [k \in 1..Cardinality(C12_Kept) |->
                        C12_RunExtent(C12_KeptAxis(k))]
             /\ Len(rd.newArgs) = Len(rd.args)
             /\ \A n \in 1..Len(rd.args) :
                    IF rd.args[n].kind = "array"
                    THEN rd.newArgs[n].strides =
                            [k \in 1..Cardinality(C12_Kept) |->
                                rd.args[n].strides[C12_KeptAxis(k)]]
                    ELSE rd.newArgs[n] = rd.args[n]

\* one operand allows both merges, the other breaks the second: only the
\* first two axes are merged
C12_Witness ==
    /\ rd.phase = "reduced"
    /\ rd.shape = <<2, 2, 2>>
    /\ Len(rd.args) = 2
    /\ rd.args[1].kind = "array" /\ rd.args[1].strides = <<0, 0, 0>>
    /\ rd.args[2].kind = "array" /\ rd.args[2].strides = <<2, 1, 3>>
    /\ rd.newShape = <<4, 2>>
    /\ rd.newArgs[1].strides = <<0, 0>>
    /\ rd.newArgs[2].strides = <<1, 3>>

\* C13: the generic tags of the parameters of the kernel called that no
\* array operand of the call binds
C13_UnboundTags ==
    {CallParams[i].ctype : i \in {j \in 1..Len(CallParams) :
                                    CallParams[j].dtype = "None"}}
    \ {CallParams[i].ctype : i \in {j \in 1..Len(call.args) :
                                    /\ CallParams[j].dtype = "None"
                                    /\ call.args[j].kind = "array"}}

\* C13: a call that gets as far as type resolution with a generic tag no
\* array operand binds fails with nothing allocated, compiled or launched;
\* the types of a resolved signature are all concrete dtypes.
C13_NoUnresolvedType ==
    (CallBroadcast /\ call.fn = "ElementwiseKernel") =>
        /\ C13_UnboundTags # {} =>
                /\ call.out.status \notin {"", "ok"}
                /\ ~call.out.typed /\ ~call.out.allocated
                /\ ~call.out.kernel /\ ~call.out.launched
        /\ call.out.typed =>
                /\ Len(call.out.inTypes) = Len(call.kernel.inParams)
                /\ Len(call.out.outTypes) = Len(call.kernel.outParams)
                /\ \A i \in 1..Len(call.out.inTypes) :
                        call.out.inTypes[i] \in CallDTypes
                /\ \A i \in 1..Len(call.out.outTypes) :
                        call.out.outTypes[i] \in CallDTypes

\* the tag of the output parameter is bound by no operand: the input is a
\* float32 parameter and the output is left to be allocated
C13_Witness ==
    /\ CallBroadcast /\ call.fn = "ElementwiseKernel"
    /\ Len(call.args) = 1
    /\ call.args[1].kind = "array" /\ call.args[1].dtype = "float32"
    /\ call.kernel.inParams[1].dtype = "float32"
    /\ call.kernel.outParams[1].dtype = "None"
    /\ C13_UnboundTags = {"T"}
    /\ call.out.status = "KeyError"
    /\ ~call.out.allocated

\* the functions that carry a _cupy_dev_memo
C14_WithMemo == {f \in Funcs : memoAttr[f] # 0}

\* the functions listed in _memoized_funcs
C14_Listed == {memoizedFuncs[i] : i \in 1..Len(memoizedFuncs)}

\* between calls, the functions with a table are the functions listed, each
\* listed once, and no clear has failed
C14_Consistent ==
    (\A t \in active : pc[t] = "idle") =>
        /\ C14_WithMemo = C14_Listed
        /\ Cardinality(C14_Listed) = Len(memoizedFuncs)
        /\ lastOp # "clear_error"

\* a clear (the step that is neither a step of a call nor a change of
\* device) removes every table and empties the list; a function that gets a
\* table gets an empty one, being listed; a lookup in an empty table misses
\* and goes on to run the wrapped function
C14_ClearStep ==
    /\ (pc' = pc /\ curDev' = curDev) =>
            /\ lastOp' = "clear"
            /\ C14_WithMemo' = {}
            /\ memoizedFuncs' = <<>>
    /\ \A f \in Funcs :
            (memoAttr[f] = 0 /\ memoAttr'[f] # 0) =>
                /\ tables'[memoAttr'[f]] = EmptyTable
                /\ f \in C14_Listed'
    /\ \A t \in active :
            (pc[t] = "get" /\ pc'[t] # "get"
             /\ tables[frame[t].tid] = EmptyTable) => pc'[t] = "compile"

\* C14: after any sequence of calls of memoized functions and of
\* clear_device_dependent_memo, a function carries a _cupy_dev_memo exactly
\* when it is listed in _memoized_funcs, once; a clear completes, removes
\* every table and empties the list, and the first call after it registers the
\* function again and recomputes.
C14_MemoListConsistent == []C14_Consistent /\ [][C14_ClearStep]_vars

\* a function called, cleared, and called again with the same arguments: it
\* is listed once again and its result was computed a second time
C14_Witness ==
    /\ pc[1] = "idle"
    /\ lastOp = "clear"
    /\ memoizedFuncs = <<"_get_elementwise_kernel">>
    /\ memoAttr["_get_elementwise_kernel"] = 2
    /\ ncompiled[<<"_get_elementwise_kernel", 0, 1>>] = 2
    /\ tables[2][0][1] = Handle("_get_elementwise_kernel", 0, 1, 2)
====
